---- MODULE Spec2Model ----
(***************************************************************************)
(* PitPulse / ScoutAI: the rating fetch, the rating caches, the alliance   *)
(* aggregation and the feature-vector builders of                          *)
(*   scripts/data_pipeline.py   (batch dataset builder)                    *)
(*   scripts/predict_server.py  (prediction server)                        *)
(*   scripts/train_model.py     (FEATURE_COLS, the persisted column list)  *)
(*                                                                         *)
(* Python / JSON values are tagged records:                                *)
(*   [t |-> "null"]              None / null                               *)
(*   [t |-> "num", n |-> 5]      a number (integers stand for the floats)  *)
(*   [t |-> "str"]               a string                                  *)
(*   [t |-> "obj", f |-> rec]    a dict; rec is a record of its keys       *)
(* Float-valued features are kept in fixed point with denominator Den = 6, *)
(* which is exact for the means of 1, 2 or 3 integers.  Float rounding is  *)
(* not modelled.                                                           *)
(***************************************************************************)
EXTENDS Integers, Sequences, FiniteSets, TLC

(***************************************************************************)
(* Python / JSON values                                                    *)
(***************************************************************************)
None == [t |-> "null"]

Num(n) == [t |-> "num", n |-> n]

Str == [t |-> "str"]

Obj(rec) == [t |-> "obj", f |-> rec]

EmptyDict == [t |-> "obj", f |-> [k \in {} |-> None]]

IsDict(v) == v.t = "obj"

IsNumber(v) == v.t = "num"

\* key in d
HasKey(d, k) == k \in DOMAIN d.f

\* d.get(k, default) of a dict d
GetOr(d, k, default) == IF HasKey(d, k) THEN d.f[k] ELSE default

\* d.get(k) of a dict d
Get(d, k) == GetOr(d, k, None)

\* Python truthiness of a JSON value
Truthy(v) ==
    CASE v.t = "null" -> FALSE
      [] v.t = "num" -> v.n # 0
      [] v.t = "str" -> TRUE
      [] v.t = "obj" -> DOMAIN v.f # {}

\* a or b
PyOr(a, b) == IF Truthy(a) THEN a ELSE b

\* a rating record {"total":..., "auto":..., "teleop":..., "endgame":...}
Rating(tot, au, te, en) ==
    Obj([total |-> tot, auto |-> au, teleop |-> te, endgame |-> en])

\* the record a missing rating must never be confused with
ZeroRating == Rating(Num(0), Num(0), Num(0), Num(0))

RatingKeys == {"total", "auto", "teleop", "endgame"}

(***************************************************************************)
(* Responses of the rating service to GET /team_event/{team}/{event}       *)
(***************************************************************************)
NetErr == [kind |-> "neterr", body |-> None]

Non200 == [kind |-> "status", body |-> None]

Ok200(body) == [kind |-> "ok", body |-> body]

Mean(n) == Obj([mean |-> Num(n)])

\* {"epa": {"breakdown": {"total_points": {"mean": ..}, ...}}}
Breakdown(tp, ap, tl, eg) ==
    Obj([epa |-> Obj([breakdown |->
        Obj([total_points |-> tp, auto_points |-> ap,
             teleop_points |-> tl, endgame_points |-> eg])])])

RespFullA == Ok200(Breakdown(Mean(50), Mean(12), Mean(30), Mean(8)))

RespFullB == Ok200(Breakdown(Mean(20), Mean(5), Mean(10), Mean(5)))

\* a team that is rated, and rated zero
RespRatedZero == Ok200(Breakdown(Mean(0), Mean(0), Mean(0), Mean(0)))

\* a success payload that carries no rating value
RespNoEpa == Ok200(Obj([team |-> Num(1)]))

RespEpaNull == Ok200(Obj([epa |-> None]))

RespEpaScalar == Ok200(Obj([epa |-> Num(42)]))

RespEpaString == Ok200(Obj([epa |-> Str]))

\* older seasons: flat keys, no structured breakdown
RespFlat ==
    Ok200(Obj([epa |-> Obj([total_points |-> Mean(40), auto |-> Num(10),
                            teleop_points |-> Num(22), endgame |-> Mean(8)])]))

RespBreakdownNull == Ok200(Obj([epa |-> Obj([breakdown |-> None])]))

\* a point category that is a bare number, not an object
RespCategoryNum ==
    Ok200(Breakdown(Num(45), Mean(10), Mean(25), Mean(10)))

RespMeanNull ==
    Ok200(Breakdown(Obj([mean |-> None]), Mean(10), Mean(25), Mean(10)))

\* the payload shapes get_team_epa is written for (data_pipeline.py 125-152)
AllResponses ==
    {NetErr, Non200, RespFullA, RespFullB, RespRatedZero, RespNoEpa,
     RespEpaNull, RespEpaScalar, RespEpaString, RespFlat, RespBreakdownNull,
     RespCategoryNum, RespMeanNull}

(***************************************************************************)
(* data_pipeline.py: statbotics_get, get_team_epa's parsing                *)
(***************************************************************************)
\* statbotics_get: the JSON body on status 200, None otherwise
statbotics_get(resp) == IF resp.kind = "ok" THEN resp.body ELSE None

safe_mean(value) ==
    IF IsDict(value)
    THEN LET v == Get(value, "mean")
         IN  IF IsNumber(v) THEN v ELSE Num(0)
    ELSE IF IsNumber(value) THEN value ELSE Num(0)

\* lines 125-158 of get_team_epa: the value stored in epa_cache and returned
BatchParse(resp) ==
    LET data == statbotics_get(resp)
    IN  IF Truthy(data) /\ IsDict(data) /\ HasKey(data, "epa")
        THEN LET epa == data.f["epa"]
             IN  IF IsDict(epa)
                 THEN LET breakdown == Get(epa, "breakdown")
                      IN  IF IsDict(breakdown)
                          THEN Rating(safe_mean(Get(breakdown, "total_points")),
                                      safe_mean(Get(breakdown, "auto_points")),
                                      safe_mean(Get(breakdown, "teleop_points")),
                                      safe_mean(Get(breakdown, "endgame_points")))
                          ELSE Rating(
                                 safe_mean(PyOr(Get(epa, "total_points"),
                                           PyOr(Get(epa, "total"),
                                           PyOr(Get(epa, "mean"),
                                                Get(epa, "epa"))))),
                                 safe_mean(PyOr(Get(epa, "auto_points"),
                                                Get(epa, "auto"))),
                                 safe_mean(PyOr(Get(epa, "teleop_points"),
                                                Get(epa, "teleop"))),
                                 safe_mean(PyOr(Get(epa, "endgame_points"),
                                                Get(epa, "endgame"))))
                 ELSE IF IsNumber(epa)
                      THEN Rating(epa, Num(0), Num(0), Num(0))
                      ELSE None
        ELSE None

(***************************************************************************)
(* predict_server.py: get_team_epa_cached's fetch and parsing              *)
(***************************************************************************)
\* x.get(k, {}) at lines 60-66: an AttributeError unless x is a dict
Raised == [t |-> "raise"]

DictGet(x, k, default) ==
    IF x.t = "raise" THEN Raised
    ELSE IF IsDict(x) THEN GetOr(x, k, default) ELSE Raised

\* lines 54-74: what the fetch ends as.
\*   [out |-> "store", val |-> v]  _epa_cache[key] = (v, now); return v
\*   [out |-> "raise", val |-> None]  an exception other than RequestException
ServeFetch(resp) ==
    IF resp.kind = "neterr" THEN [out |-> "store", val |-> None]
    ELSE IF resp.kind # "ok" THEN [out |-> "store", val |-> None]
    ELSE LET data == resp.body
             epa == DictGet(data, "epa", EmptyDict)
             breakdown == DictGet(epa, "breakdown", EmptyDict)
             tot == DictGet(DictGet(breakdown, "total_points", EmptyDict), "mean", Num(0))
             au == DictGet(DictGet(breakdown, "auto_points", EmptyDict), "mean", Num(0))
             te == DictGet(DictGet(breakdown, "teleop_points", EmptyDict), "mean", Num(0))
             en == DictGet(DictGet(breakdown, "endgame_points", EmptyDict), "mean", Num(0))
         IN  IF Raised \in {epa, breakdown, tot, au, te, en}
             THEN [out |-> "raise", val |-> None]
             ELSE [out |-> "store", val |-> Rating(tot, au, te, en)]

(***************************************************************************)
(* Numbers: fixed point with denominator Den                               *)
(***************************************************************************)
Den == 2 * 3

RECURSIVE SumSeq(_)
SumSeq(s) == IF s = <<>> THEN 0 ELSE Head(s) + SumSeq(Tail(s))

RECURSIVE MaxSeq(_)
MaxSeq(s) ==
    IF Len(s) = 1 THEN Head(s)
    ELSE LET m == MaxSeq(Tail(s)) IN IF Head(s) >= m THEN Head(s) ELSE m

\* [e[key] for e in epas], as integers
Column(epas, key) == [i \in 1..Len(epas) |-> epas[i].f[key].n]

\* np.mean(xs) of a non-empty list, times Den
np_mean(xs) == (Den * SumSeq(xs)) \div Len(xs)

\* [e for e in epas if e is not None]
IsPresent(e) == e # None

ValidOf(epas) == SelectSeq(epas, IsPresent)

(***************************************************************************)
(* Dicts in insertion order: sequences of <<key, value>>                   *)
(***************************************************************************)
DictKeys(d) == [i \in 1..Len(d) |-> d[i][1]]

DictHas(d, k) == \E i \in 1..Len(d) : d[i][1] = k

DictAt(d, k) == d[CHOOSE i \in 1..Len(d) : d[i][1] = k][2]

(***************************************************************************)
(* train_model.py: the canonical schema                                    *)
(***************************************************************************)
FEATURE_COLS ==
    << "red_avg_epa", "red_avg_auto", "red_avg_teleop", "red_avg_endgame",
       "red_sum_epa", "red_max_epa",
       "blue_avg_epa", "blue_avg_auto", "blue_avg_teleop", "blue_avg_endgame",
       "blue_sum_epa", "blue_max_epa",
       "comp_level", "event_week", "epa_diff", "avg_epa_diff" >>

(***************************************************************************)
(* data_pipeline.py: build_feature_vector                                  *)
(***************************************************************************)
\* a team key "frc<n>" is [valid |-> TRUE, n |-> n]; a key int() rejects
\* (ValueError) is [valid |-> FALSE, n |-> 0]
TeamKey(n) == [valid |-> TRUE, n |-> n]

BadTeamKey == [valid |-> FALSE, n |-> 0]

IsValidKey(k) == k.valid

extract_team_numbers(alliance_data) ==
    LET good == SelectSeq(alliance_data.team_keys, IsValidKey)
    IN  [i \in 1..Len(good) |-> good[i].n]

\* red_teams[:3]
FirstThree(s) == SubSeq(s, 1, 3)

\* the means taken over all the ratings given, the missing ones included
alliance_features_mutant_denominator(epas, prefix) ==
    LET valid == ValidOf(epas)
    IN  IF valid = <<>>
        THEN << <<prefix \o "_avg_epa", 0>>, <<prefix \o "_avg_auto", 0>>,
                <<prefix \o "_avg_teleop", 0>>, <<prefix \o "_avg_endgame", 0>>,
                <<prefix \o "_sum_epa", 0>>, <<prefix \o "_max_epa", 0>> >>
        ELSE << <<prefix \o "_avg_epa", (Den * SumSeq(Column(valid, "total"))) \div Len(epas)>>,
                <<prefix \o "_avg_auto", (Den * SumSeq(Column(valid, "auto"))) \div Len(epas)>>,
                <<prefix \o "_avg_teleop", (Den * SumSeq(Column(valid, "teleop"))) \div Len(epas)>>,
                <<prefix \o "_avg_endgame", (Den * SumSeq(Column(valid, "endgame"))) \div Len(epas)>>,
                <<prefix \o "_sum_epa", Den * SumSeq(Column(valid, "total"))>>,
                <<prefix \o "_max_epa", Den * MaxSeq(Column(valid, "total"))>> >>

\* lines 200-213
alliance_features(epas, prefix) ==
    LET valid == ValidOf(epas)
    IN  IF valid = <<>>
        THEN << <<prefix \o "_avg_epa", 0>>, <<prefix \o "_avg_auto", 0>>,
                <<prefix \o "_avg_teleop", 0>>, <<prefix \o "_avg_endgame", 0>>,
                <<prefix \o "_sum_epa", 0>>, <<prefix \o "_max_epa", 0>> >>
        ELSE << <<prefix \o "_avg_epa", np_mean(Column(valid, "total"))>>,
                <<prefix \o "_avg_auto", np_mean(Column(valid, "auto"))>>,
                <<prefix \o "_avg_teleop", np_mean(Column(valid, "teleop"))>>,
                <<prefix \o "_avg_endgame", np_mean(Column(valid, "endgame"))>>,
                <<prefix \o "_sum_epa", Den * SumSeq(Column(valid, "total"))>>,
                <<prefix \o "_max_epa", Den * MaxSeq(Column(valid, "total"))>> >>

\* line 220
comp_encoded(comp_level) ==
    CASE comp_level = "qm" -> 0
      [] comp_level = "ef" -> 1
      [] comp_level = "qf" -> 1
      [] comp_level = "sf" -> 2
      [] comp_level = "f" -> 3
      [] OTHER -> 0

\* line 223: event.get("week", 0) or 0
event_week_of(event) == IF Truthy(event.week) THEN event.week.n ELSE 0

\* the serving threshold (1 per alliance) in place of the batch one
BatchGateRejects_mutant_threshold(red_valid, blue_valid) ==
    Len(red_valid) < 1 \/ Len(blue_valid) < 1

\* line 197: the batch sufficiency gate (TRUE: the match is skipped)
BatchGateRejects(red_valid, blue_valid) ==
    Len(red_valid) < 2 \/ Len(blue_valid) < 2

\* a tie labelled as a red win instead of being skipped
WinnerLabel_mutant_tie(red_score, blue_score) ==
    IF red_score >= blue_score THEN 1 ELSE 0

\* lines 229-235: the label; -1 stands for the early return on a tie
WinnerLabel(red_score, blue_score) ==
    IF red_score > blue_score THEN 1
    ELSE IF blue_score > red_score THEN 0
    ELSE -1

\* lines 226-227
epa_diff_of(red_feats, blue_feats) ==
    DictAt(red_feats, "red_sum_epa") - DictAt(blue_feats, "blue_sum_epa")

avg_epa_diff_of(red_feats, blue_feats) ==
    DictAt(red_feats, "red_avg_epa") - DictAt(blue_feats, "blue_avg_epa")

NoRow == << >>

\* lines 194-248, given the six fetched ratings: the row, or NoRow for None
BuildRow(match, event, red_epas, blue_epas) ==
    LET red_score == match.red.score
        blue_score == match.blue.score
        red_valid == ValidOf(red_epas)
        blue_valid == ValidOf(blue_epas)
    IN  IF BatchGateRejects(red_valid, blue_valid) THEN NoRow
        ELSE LET red_feats == alliance_features(red_epas, "red")
                 blue_feats == alliance_features(blue_epas, "blue")
                 epa_diff == epa_diff_of(red_feats, blue_feats)
                 avg_epa_diff == avg_epa_diff_of(red_feats, blue_feats)
                 winner == WinnerLabel(red_score, blue_score)
             IN  IF winner = -1 THEN NoRow
                 ELSE red_feats \o blue_feats \o
                      << <<"comp_level", comp_encoded(match.comp_level)>>,
                         <<"event_week", event_week_of(event)>>,
                         <<"epa_diff", epa_diff>>,
                         <<"avg_epa_diff", avg_epa_diff>>,
                         <<"winner", winner>>,
                         <<"red_score", red_score>>,
                         <<"blue_score", blue_score>>,
                         <<"score_margin", red_score - blue_score>> >>

(***************************************************************************)
(* predict_server.py: build_features                                       *)
(***************************************************************************)
\* np.mean / sum / max raise TypeError on a value that is not a number
AllNumeric(epas) ==
    \A i \in 1..Len(epas) : \A k \in RatingKeys : IsNumber(epas[i].f[k])

\* lines 91-98
avg_or_zero(epas, key) == IF epas # <<>> THEN np_mean(Column(epas, key)) ELSE 0

sum_or_zero(epas, key) == IF epas # <<>> THEN Den * SumSeq(Column(epas, key)) ELSE 0

max_or_zero(epas, key) == IF epas # <<>> THEN Den * MaxSeq(Column(epas, key)) ELSE 0

\* lines 100-117
ServeFeatures(red_valid, blue_valid, comp_level, event_week) ==
    << <<"red_avg_epa", avg_or_zero(red_valid, "total")>>,
       <<"red_avg_auto", avg_or_zero(red_valid, "auto")>>,
       <<"red_avg_teleop", avg_or_zero(red_valid, "teleop")>>,
       <<"red_avg_endgame", avg_or_zero(red_valid, "endgame")>>,
       <<"red_sum_epa", sum_or_zero(red_valid, "total")>>,
       <<"red_max_epa", max_or_zero(red_valid, "total")>>,
       <<"blue_avg_epa", avg_or_zero(blue_valid, "total")>>,
       <<"blue_avg_auto", avg_or_zero(blue_valid, "auto")>>,
       <<"blue_avg_teleop", avg_or_zero(blue_valid, "teleop")>>,
       <<"blue_avg_endgame", avg_or_zero(blue_valid, "endgame")>>,
       <<"blue_sum_epa", sum_or_zero(blue_valid, "total")>>,
       <<"blue_max_epa", max_or_zero(blue_valid, "total")>>,
       <<"comp_level", comp_level>>,
       <<"event_week", event_week>>,
       <<"epa_diff", sum_or_zero(red_valid, "total") - sum_or_zero(blue_valid, "total")>>,
       <<"avg_epa_diff", avg_or_zero(red_valid, "total") - avg_or_zero(blue_valid, "total")>> >>

\* line 88: the serving sufficiency gate (TRUE: build_features returns None)
ServeGateRejects(red_valid, blue_valid) == red_valid = <<>> \/ blue_valid = <<>>

\* lines 85-119, given the six fetched ratings and the loaded column list.
\*   [out |-> "none"]    return None
\*   [out |-> "raise"]   TypeError (a rating value that is not a number) or
\*                       KeyError (a loaded column the features dict lacks)
\*   [out |-> "vector"]  the 1 x n array, X its row
build_features_tail(red_epas, blue_epas, comp_level, event_week, cols) ==
    LET red_valid == ValidOf(red_epas)
        blue_valid == ValidOf(blue_epas)
    IN  IF ServeGateRejects(red_valid, blue_valid)
        THEN [out |-> "none", X |-> << >>]
        ELSE IF ~(AllNumeric(red_valid) /\ AllNumeric(blue_valid))
        THEN [out |-> "raise", X |-> << >>]
        ELSE LET features == ServeFeatures(red_valid, blue_valid,
                                           comp_level, event_week)
             IN  IF \E i \in 1..Len(cols) : ~DictHas(features, cols[i])
                 THEN [out |-> "raise", X |-> << >>]
                 ELSE [out |-> "vector",
                       X |-> [i \in 1..Len(cols) |-> DictAt(features, cols[i])]]

(***************************************************************************)
(* State                                                                   *)
(***************************************************************************)
VARIABLES
    clock,          \* time.time(), serving process
    _epa_cache,     \* predict_server.py: cache key -> (data, ts), or no entry
    th,             \* serving: each worker thread inside get_team_epa_cached
    MODELS_LOADED,  \* predict_server.py: module-level flag
    feature_cols,   \* predict_server.py: the loaded column list
    srv,            \* serving: the server and the request it is handling
    epa_cache,      \* data_pipeline.py main(): cache key -> rating | None
    bat,            \* batch: main()'s position and locals
    all_rows,       \* data_pipeline.py main(): the rows emitted so far
    par,            \* one match context built by both builders
    agg             \* one pair of alliances, aggregated

vars == << clock, _epa_cache, th, MODELS_LOADED, feature_cols, srv,
           epa_cache, bat, all_rows, par, agg >>

cacheVars == << clock, _epa_cache, th >>

serverVars == << MODELS_LOADED, feature_cols, srv >>

batchVars == << epa_cache, bat, all_rows >>

\* what the actions of each part leave alone
offCache == << MODELS_LOADED, feature_cols, srv, epa_cache, bat, all_rows, par, agg >>

offServer == << epa_cache, bat, all_rows, par, agg >>

offBatch == << clock, _epa_cache, th, MODELS_LOADED, feature_cols, srv, par, agg >>

offParity == << clock, _epa_cache, th, MODELS_LOADED, feature_cols, srv,
                epa_cache, bat, all_rows, agg >>

offAgg == << clock, _epa_cache, th, MODELS_LOADED, feature_cols, srv,
             epa_cache, bat, all_rows, par >>

(***************************************************************************)
(* Bounds                                                                  *)
(***************************************************************************)
NumThreads == 2

NumCacheTeams == 2

TickStep == 300

MaxClock == 1200

(***************************************************************************)
(* predict_server.py: the TTL cache, get_team_epa_cached                   *)
(***************************************************************************)
EPA_CACHE_TTL == 600

Threads == 1..NumThreads

\* a cache key is f"{team_num}-{event_key}"; the model has one event, so a key
\* is a team number

CacheTeams == 1..NumCacheTeams

\* the responses the rating service gives the lookups of SpecCache
CacheResponses ==
    {NetErr, Non200, RespFullA, RespRatedZero, RespNoEpa, RespCategoryNum}

NoResp == [kind |-> "none", body |-> None]

\* a dict is a function on the keys it holds
EmptyCache == << >>

\* d[key] = value
Put(d, key, value) == (key :> value) @@ d

\* the tuple (data, ts)
Entry(data, ts) == [data |-> data, ts |-> ts]

\* lines 49-51: cache_key in _epa_cache and now - ts < EPA_CACHE_TTL
CacheHit(cache, key, now) ==
    key \in DOMAIN cache /\ now - cache[key].ts < EPA_CACHE_TTL

IdleThread ==
    [pc |-> "idle", team |-> 0, now |-> 0, saw |-> "absent",
     resp |-> NoResp, ret |-> None]

InitCache ==
    /\ clock = 0
    /\ _epa_cache = EmptyCache
    /\ th = [t \in Threads |-> IdleThread]

\* time passes; an outbound GET is bounded by timeout=10 (line 56), far less
\* than TickStep, so none is in flight across a tick
Tick ==
    /\ clock + TickStep <= MaxClock
    /\ \A t \in Threads : th[t].pc # "fetching"
    /\ clock' = clock + TickStep
    /\ UNCHANGED << _epa_cache, th, offCache >>

\* lines 46-52: a thread enters get_team_epa_cached(team, event); on a fresh
\* entry it returns the stored data, otherwise it issues the outbound GET.
\* saw records what lines 49-51 found: a fresh entry, an expired one, none
Lookup(t, team) ==
    /\ th[t].pc # "fetching"
    /\ IF CacheHit(_epa_cache, team, clock)
       THEN th' = [th EXCEPT ![t] =
                     [pc |-> "returned", team |-> team, now |-> clock,
                      saw |-> "fresh", resp |-> NoResp,
                      ret |-> _epa_cache[team].data]]
       ELSE th' = [th EXCEPT ![t] =
                     [pc |-> "fetching", team |-> team, now |-> clock,
                      saw |-> IF team \in DOMAIN _epa_cache
                              THEN "expired" ELSE "absent",
                      resp |-> NoResp, ret |-> None]]
    /\ UNCHANGED << clock, _epa_cache, offCache >>

\* lines 54-74: the GET comes back (or fails); the entry is written with the
\* time read at line 47, unless the parsing raises
FetchReturn(t, resp) ==
    /\ th[t].pc = "fetching"
    /\ LET r == ServeFetch(resp)
       IN  IF r.out = "raise"
           THEN /\ th' = [th EXCEPT ![t].pc = "raised", ![t].resp = resp]
                /\ UNCHANGED _epa_cache
           ELSE /\ th' = [th EXCEPT ![t].pc = "returned", ![t].resp = resp,
                                    ![t].ret = r.val]
                /\ _epa_cache' = Put(_epa_cache, th[t].team,
                                      Entry(r.val, th[t].now))
    /\ UNCHANGED << clock, offCache >>

(***************************************************************************)
(* predict_server.py: startup and the /predict handler                     *)
(***************************************************************************)
\* feature_columns.joblib as the server may find it on disk: the schema of
\* this build, or the list a different build of train_model.py persisted
ColsMissing == SubSeq(FEATURE_COLS, 1, Len(FEATURE_COLS) - 1)

ColsRenamed == [FEATURE_COLS EXCEPT ![1] = "red_mean_epa"]

ColsExtra == Append(FEATURE_COLS, "red_min_epa")

ColumnArtifacts == {FEATURE_COLS, ColsMissing, ColsRenamed, ColsExtra}

PredictRequest(red, blue, comp_level, event_week) ==
    [red_teams |-> red, blue_teams |-> blue,
     comp_level |-> comp_level, event_week |-> event_week]

NoRequest == PredictRequest(<< >>, << >>, 0, 0)

ServeRequests ==
    {PredictRequest(<<1, 2, 3>>, <<4, 5, 6>>, 0, 1),
     PredictRequest(<<1, 2, 3>>, <<4, 5, 6>>, 2, 1),
     PredictRequest(<<1, 2>>, <<4, 5, 6>>, 0, 1)}

\* the responses the rating service gives the fetches of SpecServe
ServeResponses == {RespFullA, Non200, RespCategoryNum, RespMeanNull}

\* one outbound effect of a process: the throttle delay of data_pipeline.py
\* line 114 (op "sleep", ms long) or a GET to the rating service (op "get"),
\* each made on behalf of one cache key
WireSleep(key, ms) == [op |-> "sleep", key |-> key, ms |-> ms]

WireGet(key) == [op |-> "get", key |-> key, ms |-> 0]

\* no response body recorded
NoBody == [status |-> "", models_loaded |-> FALSE]

\* the server, the request it handled last (route, req), that request's
\* outbound effects so far (wire) and its response (status, body, X)
IdleServer(phase) ==
    [phase |-> phase, pc |-> "idle", route |-> "", req |-> NoRequest, idx |-> 0,
     epas |-> << >>, status |-> 0, X |-> << >>, wire |-> << >>, body |-> NoBody]

InitServer ==
    /\ MODELS_LOADED = FALSE
    /\ feature_cols = << >>
    /\ srv = IdleServer("starting")

\* lines 25-32: every artifact loads
LoadModels(cols) ==
    /\ srv.phase = "starting"
    /\ MODELS_LOADED' = TRUE
    /\ feature_cols' = cols
    /\ srv' = [srv EXCEPT !.phase = "serving"]
    /\ UNCHANGED << cacheVars, offServer >>

\* lines 33-37: a joblib.load raises
LoadModelsFails ==
    /\ srv.phase = "starting"
    /\ MODELS_LOADED' = FALSE
    /\ feature_cols' = << >>
    /\ srv' = [srv EXCEPT !.phase = "serving"]
    /\ UNCHANGED << cacheVars, offServer >>

\* the team count validated before the models are looked at
PredictStart_mutant_order(req) ==
    /\ srv.phase = "serving"
    /\ srv.pc \in {"idle", "done"}
    /\ srv' = IF Len(req.red_teams) # 3 \/ Len(req.blue_teams) # 3
              THEN [IdleServer("serving") EXCEPT
                      !.route = "/predict",
                      !.pc = "done", !.req = req, !.status = 400]
              ELSE IF ~MODELS_LOADED
              THEN [IdleServer("serving") EXCEPT
                      !.route = "/predict",
                      !.pc = "done", !.req = req, !.status = 503]
              ELSE [IdleServer("serving") EXCEPT
                      !.route = "/predict",
                      !.pc = "fetch", !.req = req, !.idx = 1]
    /\ UNCHANGED << MODELS_LOADED, feature_cols, cacheVars, offServer >>

\* lines 155-160: a request arrives; 503 without models, 400 on a team count
\* other than 3, else build_features starts fetching
PredictStart(req) ==
    /\ srv.phase = "serving"
    /\ srv.pc \in {"idle", "done"}
    /\ srv' = IF ~MODELS_LOADED
              THEN [IdleServer("serving") EXCEPT
                      !.route = "/predict",
                      !.pc = "done", !.req = req, !.status = 503]
              ELSE IF Len(req.red_teams) # 3 \/ Len(req.blue_teams) # 3
              THEN [IdleServer("serving") EXCEPT
                      !.route = "/predict",
                      !.pc = "done", !.req = req, !.status = 400]
              ELSE [IdleServer("serving") EXCEPT
                      !.route = "/predict",
                      !.pc = "fetch", !.req = req, !.idx = 1]
    /\ UNCHANGED << MODELS_LOADED, feature_cols, cacheVars, offServer >>

\* after the idx-th team: the next team, or lines 85-119
AfterFetch(s, data) ==
    [s EXCEPT !.epas = Append(s.epas, data),
              !.idx = s.idx + 1,
              !.pc = IF s.idx = 6 THEN "build" ELSE "fetch"]

\* lines 82-83: get_team_epa_cached for the idx-th of the six teams, answered
\* from the cache
PredictFetchHit ==
    /\ srv.pc = "fetch"
    /\ LET team == (srv.req.red_teams \o srv.req.blue_teams)[srv.idx]
       IN  /\ CacheHit(_epa_cache, team, clock)
           /\ srv' = AfterFetch(srv, _epa_cache[team].data)
    /\ UNCHANGED << MODELS_LOADED, feature_cols, cacheVars, offServer >>

\* lines 82-83: get_team_epa_cached for the idx-th team, by an outbound GET;
\* an exception leaves build_features and predict (status 500)
PredictFetchMiss(resp) ==
    /\ srv.pc = "fetch"
    /\ LET team == (srv.req.red_teams \o srv.req.blue_teams)[srv.idx]
           r == ServeFetch(resp)
           sent == [srv EXCEPT !.wire = Append(srv.wire, WireGet(team))]
       IN  /\ ~CacheHit(_epa_cache, team, clock)
           /\ IF r.out = "raise"
              THEN /\ srv' = [sent EXCEPT !.pc = "done", !.status = 500]
                   /\ UNCHANGED _epa_cache
              ELSE /\ srv' = AfterFetch(sent, r.val)
                   /\ _epa_cache' = Put(_epa_cache, team, Entry(r.val, clock))
    /\ UNCHANGED << MODELS_LOADED, feature_cols, clock, th, offServer >>

\* lines 85-119 and 167-187: the gate, the vector, the response
PredictBuild ==
    /\ srv.pc = "build"
    /\ LET b == build_features_tail(SubSeq(srv.epas, 1, 3), SubSeq(srv.epas, 4, 6),
                                    srv.req.comp_level, srv.req.event_week,
                                    feature_cols)
       IN  srv' = [srv EXCEPT
                     !.pc = "done",
                     !.X = b.X,
                     !.status = CASE b.out = "none" -> 422
                                  [] b.out = "raise" -> 500
                                  [] OTHER -> 200]
    /\ UNCHANGED << MODELS_LOADED, feature_cols, cacheVars, offServer >>

\* lines 149-151: GET /health, whatever the models' state
Health ==
    /\ srv.phase = "serving"
    /\ srv.pc \in {"idle", "done"}
    /\ srv' = [IdleServer("serving") EXCEPT
                 !.route = "/health", !.pc = "done", !.status = 200,
                 !.body = [status |-> "ok", models_loaded |-> MODELS_LOADED]]
    /\ UNCHANGED << MODELS_LOADED, feature_cols, cacheVars, offServer >>

(***************************************************************************)
(* data_pipeline.py: main(), build_feature_vector, get_team_epa            *)
(***************************************************************************)
MaxMatches == 2

Alliance(keys, score) == [team_keys |-> keys, score |-> score]

Match(red, blue, comp_level) ==
    [red |-> red, blue |-> blue, comp_level |-> comp_level]

NoMatch == Match(Alliance(<< >>, 0), Alliance(<< >>, 0), "qm")

\* completed matches as fetch_matches_for_event returns them (scores >= 0)
BatchMatches ==
    {Match(Alliance(<<TeamKey(1), TeamKey(2), TeamKey(3)>>, 10),
           Alliance(<<TeamKey(4), TeamKey(5), TeamKey(6)>>, 5), "qm"),
     Match(Alliance(<<TeamKey(1), TeamKey(2), TeamKey(3)>>, 5),
           Alliance(<<TeamKey(4), TeamKey(5), TeamKey(6)>>, 10), "sf"),
     Match(Alliance(<<TeamKey(1), TeamKey(2), TeamKey(3)>>, 7),
           Alliance(<<TeamKey(4), TeamKey(5), TeamKey(6)>>, 7), "f"),
     Match(Alliance(<<TeamKey(1), BadTeamKey, TeamKey(3)>>, 9),
           Alliance(<<TeamKey(4), TeamKey(5), TeamKey(6)>>, 4), "qm"),
     Match(Alliance(<<TeamKey(1), TeamKey(2), TeamKey(7)>>, 8),
           Alliance(<<TeamKey(4), TeamKey(5), TeamKey(6)>>, 3), "qf")}

\* line 23
THROTTLE_MS == 1100

\* the events of the run: their week, which TBA may give as null
BatchEvents == {[key |-> "e", week |-> Num(2)], [key |-> "f", week |-> None]}

\* line 110: f"{team_num}-{event_key}"
cache_key(team_num, event_key) == <<team_num, event_key>>

\* the responses the rating service gives the fetches of SpecBatch
BatchResponses == {RespFullA, RespFullB, Non200, NetErr, RespNoEpa}

\* the matches and responses of SpecMemo: a team met again in the same event,
\* a team met again in the other event, a fetch that fails
MemoMatches ==
    {Match(Alliance(<<TeamKey(1), TeamKey(2), TeamKey(3)>>, 10),
           Alliance(<<TeamKey(4), TeamKey(5), TeamKey(6)>>, 5), "qm"),
     Match(Alliance(<<TeamKey(1), TeamKey(2), TeamKey(7)>>, 8),
           Alliance(<<TeamKey(4), TeamKey(5), TeamKey(1)>>, 3), "qf")}

MemoResponses == {RespFullA, Non200, NetErr}

InitBatch ==
    /\ epa_cache = EmptyCache
    /\ all_rows = << >>
    /\ \E ev \in BatchEvents :
         bat = [pc |-> "main", event |-> ev, seen |-> {ev.key},
                match |-> NoMatch, idx |-> 0,
                epas |-> << >>, row |-> NoRow, nmatch |-> 0,
                wire |-> << >>, calls |-> EmptyCache]

\* the six teams fetched at lines 191-192
SixTeams(match) ==
    FirstThree(extract_team_numbers(match.red))
        \o FirstThree(extract_team_numbers(match.blue))

\* lines 265-273: the next event of the year, each event once
NextEvent(ev) ==
    /\ bat.pc = "main"
    /\ ev.key \notin bat.seen
    /\ bat' = [bat EXCEPT !.event = ev, !.seen = bat.seen \cup {ev.key},
                          !.match = NoMatch, !.idx = 0, !.epas = << >>,
                          !.row = NoRow, !.wire = << >>]
    /\ UNCHANGED << epa_cache, all_rows, offBatch >>

\* the GETs issued to the rating service for a key since main() started
CallsOf(calls, key) == IF key \in DOMAIN calls THEN calls[key] ELSE 0

\* the key get_team_epa is working on
BatchKey == cache_key(SixTeams(bat.match)[bat.idx], bat.event.key)

\* lines 279-280 and 177-188: the next match of the event; build_feature_vector
\* returns None when an alliance has fewer than 3 team numbers
NextMatch(m) ==
    /\ bat.pc = "main"
    /\ bat.nmatch < MaxMatches
    /\ bat' = IF Len(extract_team_numbers(m.red)) < 3
                 \/ Len(extract_team_numbers(m.blue)) < 3
              THEN [bat EXCEPT !.match = m, !.idx = 0, !.epas = << >>,
                               !.row = NoRow, !.nmatch = bat.nmatch + 1,
                               !.wire = << >>]
              ELSE [bat EXCEPT !.pc = "fetch", !.match = m, !.idx = 1,
                               !.epas = << >>, !.row = NoRow,
                               !.nmatch = bat.nmatch + 1, !.wire = << >>]
    /\ UNCHANGED << epa_cache, all_rows, offBatch >>

AfterBatchFetch(b, data) ==
    [b EXCEPT !.epas = Append(b.epas, data),
              !.idx = b.idx + 1,
              !.pc = IF b.idx = 6 THEN "build" ELSE "fetch"]

\* lines 110-112: get_team_epa answered from epa_cache
GetTeamEpaHit ==
    /\ bat.pc = "fetch"
    /\ BatchKey \in DOMAIN epa_cache
    /\ bat' = AfterBatchFetch(bat, epa_cache[BatchKey])
    /\ UNCHANGED << epa_cache, all_rows, offBatch >>

\* a miss that goes to the call without the delay
Throttle_mutant_no_sleep ==
    /\ bat.pc = "fetch"
    /\ BatchKey \notin DOMAIN epa_cache
    /\ bat' = [bat EXCEPT !.pc = "call"]
    /\ UNCHANGED << epa_cache, all_rows, offBatch >>

\* line 114: time.sleep(THROTTLE_MS / 1000) on a miss
Throttle ==
    /\ bat.pc = "fetch"
    /\ BatchKey \notin DOMAIN epa_cache
    /\ bat' = [bat EXCEPT !.pc = "call",
                          !.wire = Append(bat.wire, WireSleep(BatchKey, THROTTLE_MS))]
    /\ UNCHANGED << epa_cache, all_rows, offBatch >>

\* a failed fetch left out of the memo, so asked again at the next lookup
CallStatbotics_mutant_no_negative(resp) ==
    /\ bat.pc = "call"
    /\ LET result == BatchParse(resp)
           sent == [bat EXCEPT !.wire = Append(bat.wire, WireGet(BatchKey)),
                               !.calls = Put(bat.calls, BatchKey,
                                             CallsOf(bat.calls, BatchKey) + 1)]
       IN  /\ epa_cache' = IF result = None THEN epa_cache
                           ELSE Put(epa_cache, BatchKey, result)
           /\ bat' = AfterBatchFetch(sent, result)
    /\ UNCHANGED << all_rows, offBatch >>

\* lines 115-158: the outbound GET, the parsing, the store
CallStatbotics(resp) ==
    /\ bat.pc = "call"
    /\ LET result == BatchParse(resp)
           sent == [bat EXCEPT !.wire = Append(bat.wire, WireGet(BatchKey)),
                               !.calls = Put(bat.calls, BatchKey,
                                             CallsOf(bat.calls, BatchKey) + 1)]
       IN  /\ epa_cache' = Put(epa_cache, BatchKey, result)
           /\ bat' = AfterBatchFetch(sent, result)
    /\ UNCHANGED << all_rows, offBatch >>

\* lines 194-248 and 281-285: the gate, the features, the label; main() keeps
\* a row that is not None
BuildFeatureVector ==
    /\ bat.pc = "build"
    /\ LET row == BuildRow(bat.match, bat.event,
                           SubSeq(bat.epas, 1, 3), SubSeq(bat.epas, 4, 6))
       IN  /\ bat' = [bat EXCEPT !.pc = "main", !.row = row]
           /\ all_rows' = IF row # NoRow
                          THEN Append(all_rows,
                                      row \o << <<"year", 2024>>,
                                                <<"event_key", bat.event.key>> >>)
                          ELSE all_rows
    /\ UNCHANGED << epa_cache, offBatch >>

(***************************************************************************)
(* Both builders on the same six payloads and the same match context       *)
(***************************************************************************)
\* what the rating service holds for each of the six teams
ParityResponses == {RespFullA, Non200, RespNoEpa, RespFlat}

ParityMatches ==
    {Match(Alliance(<<TeamKey(1), TeamKey(2), TeamKey(3)>>, 10),
           Alliance(<<TeamKey(4), TeamKey(5), TeamKey(6)>>, 5), "qm"),
     Match(Alliance(<<TeamKey(1), TeamKey(2), TeamKey(3)>>, 5),
           Alliance(<<TeamKey(4), TeamKey(5), TeamKey(6)>>, 10), "sf")}

ParityEvent == [key |-> "e", week |-> Num(2)]

\* build_feature_vector on an empty epa_cache, the service answering each
\* team's GET with payload[team]
build_feature_vector(match, event, payload) ==
    IF Len(extract_team_numbers(match.red)) < 3
       \/ Len(extract_team_numbers(match.blue)) < 3
    THEN NoRow
    ELSE LET teams == SixTeams(match)
             epas == [i \in 1..6 |-> BatchParse(payload[teams[i]])]
         IN  BuildRow(match, event, SubSeq(epas, 1, 3), SubSeq(epas, 4, 6))

\* build_features on an empty _epa_cache, the service answering each team's
\* GET with payload[team]
build_features(req, payload, cols) ==
    LET teams == req.red_teams \o req.blue_teams
        got == [i \in 1..6 |-> ServeFetch(payload[teams[i]])]
        epas == [i \in 1..6 |-> got[i].val]
    IN  IF \E i \in 1..6 : got[i].out = "raise"
        THEN [out |-> "raise", X |-> << >>]
        ELSE build_features_tail(SubSeq(epas, 1, 3), SubSeq(epas, 4, 6),
                                 req.comp_level, req.event_week, cols)

\* the /predict request for the match build_feature_vector is given
RequestOf(match, event) ==
    PredictRequest(FirstThree(extract_team_numbers(match.red)),
                   FirstThree(extract_team_numbers(match.blue)),
                   comp_encoded(match.comp_level), event_week_of(event))

IdlePar ==
    [payload |-> << >>,
     match |-> NoMatch,
     batchDone |-> FALSE, row |-> NoRow,
     serveDone |-> FALSE, serve |-> [out |-> "none", X |-> << >>]]

InitParity ==
    \E payload \in [1..6 -> ParityResponses], m \in ParityMatches :
        par = [IdlePar EXCEPT !.payload = payload, !.match = m]

RunBatchBuilder ==
    /\ ~par.batchDone
    /\ par' = [par EXCEPT !.batchDone = TRUE,
                          !.row = build_feature_vector(par.match, ParityEvent,
                                                       par.payload)]
    /\ UNCHANGED offParity

\* the server holds the column list train_model.py persisted: FEATURE_COLS
RunServeBuilder ==
    /\ ~par.serveDone
    /\ par' = [par EXCEPT !.serveDone = TRUE,
                          !.serve = build_features(RequestOf(par.match, ParityEvent),
                                                   par.payload, FEATURE_COLS)]
    /\ UNCHANGED offParity

(***************************************************************************)
(* The alliance aggregation on its own                                     *)
(***************************************************************************)
MaxAllianceSize == 3

RedRatings ==
    {None, Rating(Num(50), Num(12), Num(30), Num(8)),
           Rating(Num(40), Num(10), Num(22), Num(8)),
           Rating(Num(30), Num(6), Num(20), Num(4))}

BlueRatings ==
    {None, Rating(Num(20), Num(5), Num(10), Num(5)),
           Rating(Num(25), Num(7), Num(15), Num(3)),
           Rating(Num(40), Num(10), Num(22), Num(8))}

SeqsUpTo(S, n) == UNION {[1..k -> S] : k \in 0..n}

IdleAgg ==
    [red |-> << >>, blue |-> << >>,
     batchDone |-> FALSE, red_feats |-> << >>, blue_feats |-> << >>,
     epa_diff |-> 0, avg_epa_diff |-> 0,
     serveDone |-> FALSE, features |-> << >>]

InitAgg ==
    \E r \in SeqsUpTo(RedRatings, MaxAllianceSize),
       b \in SeqsUpTo(BlueRatings, MaxAllianceSize) :
        agg = [IdleAgg EXCEPT !.red = r, !.blue = b]

\* data_pipeline.py lines 215-216 and 226-227
AggregateBatch ==
    /\ ~agg.batchDone
    /\ LET red_feats == alliance_features(agg.red, "red")
           blue_feats == alliance_features(agg.blue, "blue")
       IN  agg' = [agg EXCEPT !.batchDone = TRUE,
                              !.red_feats = red_feats,
                              !.blue_feats = blue_feats,
                              !.epa_diff = epa_diff_of(red_feats, blue_feats),
                              !.avg_epa_diff = avg_epa_diff_of(red_feats, blue_feats)]
    /\ UNCHANGED offAgg

\* predict_server.py lines 85-86 and 91-117
AggregateServe ==
    /\ ~agg.serveDone
    /\ agg' = [agg EXCEPT !.serveDone = TRUE,
                          !.features = ServeFeatures(ValidOf(agg.red),
                                                     ValidOf(agg.blue), 0, 0)]
    /\ UNCHANGED offAgg

(***************************************************************************)
(* Specifications                                                          *)
(***************************************************************************)
QuietCache ==
    /\ clock = 0
    /\ _epa_cache = EmptyCache
    /\ th = [t \in Threads |-> IdleThread]

QuietServer ==
    /\ MODELS_LOADED = FALSE
    /\ feature_cols = << >>
    /\ srv = IdleServer("starting")

QuietBatch ==
    /\ epa_cache = EmptyCache
    /\ all_rows = << >>
    /\ bat = [pc |-> "main", event |-> ParityEvent, seen |-> {ParityEvent.key},
              match |-> NoMatch, idx |-> 0, epas |-> << >>, row |-> NoRow,
              nmatch |-> 0, wire |-> << >>, calls |-> EmptyCache]

\* the prediction server: startup, then /predict requests one at a time
Init == InitCache /\ InitServer /\ QuietBatch /\ par = IdlePar /\ agg = IdleAgg

Next ==
    \/ \E cols \in ColumnArtifacts : LoadModels(cols)
    \/ LoadModelsFails
    \/ \E req \in ServeRequests : PredictStart(req)
    \/ PredictFetchHit
    \/ \E resp \in ServeResponses : PredictFetchMiss(resp)
    \/ PredictBuild
    \/ Health

Spec == Init /\ [][Next]_vars

\* the serving cache under concurrent lookups, with time passing
InitCacheSpec ==
    InitCache /\ QuietServer /\ QuietBatch /\ par = IdlePar /\ agg = IdleAgg

NextCacheSpec ==
    \/ Tick
    \/ \E t \in Threads, team \in CacheTeams : Lookup(t, team)
    \/ \E t \in Threads, resp \in CacheResponses : FetchReturn(t, resp)

SpecCache == InitCacheSpec /\ [][NextCacheSpec]_vars

\* the batch dataset builder
InitBatchSpec ==
    QuietCache /\ QuietServer /\ InitBatch /\ par = IdlePar /\ agg = IdleAgg

NextBatchSpec ==
    \/ \E m \in BatchMatches : NextMatch(m)
    \/ GetTeamEpaHit
    \/ Throttle
    \/ \E resp \in BatchResponses : CallStatbotics(resp)
    \/ BuildFeatureVector

SpecBatch == InitBatchSpec /\ [][NextBatchSpec]_vars

\* either process alone, with what it sends to the rating service: the batch
\* run (no server in the process) or the server (no batch run in the process)
InitRateSpec ==
    /\ QuietCache /\ par = IdlePar /\ agg = IdleAgg
    /\ \/ /\ InitBatch
          /\ MODELS_LOADED = FALSE /\ feature_cols = << >>
          /\ srv = IdleServer("absent")
       \/ /\ InitServer
          /\ epa_cache = EmptyCache /\ all_rows = << >>
          /\ bat = [pc |-> "absent", event |-> ParityEvent, seen |-> {},
                    match |-> NoMatch, idx |-> 0, epas |-> << >>, row |-> NoRow,
                    nmatch |-> 0, wire |-> << >>, calls |-> EmptyCache]

NextRateSpec ==
    \/ \E ev \in BatchEvents : NextEvent(ev)
    \/ \E m \in MemoMatches : NextMatch(m)
    \/ GetTeamEpaHit
    \/ Throttle
    \/ \E resp \in MemoResponses : CallStatbotics(resp)
    \/ BuildFeatureVector
    \/ \E cols \in {FEATURE_COLS} : LoadModels(cols)
    \/ LoadModelsFails
    \/ \E req \in ServeRequests : PredictStart(req)
    \/ PredictFetchHit
    \/ \E resp \in ServeResponses : PredictFetchMiss(resp)
    \/ PredictBuild
    \/ Health

SpecRate == InitRateSpec /\ [][NextRateSpec]_vars

\* the batch run across events: what reaches the rating service
NextMemoSpec ==
    \/ \E ev \in BatchEvents : NextEvent(ev)
    \/ \E m \in MemoMatches : NextMatch(m)
    \/ GetTeamEpaHit
    \/ Throttle
    \/ \E resp \in MemoResponses : CallStatbotics(resp)
    \/ BuildFeatureVector

SpecMemo == InitBatchSpec /\ [][NextMemoSpec]_vars

\* both builders on the same inputs
InitParitySpec ==
    QuietCache /\ QuietServer /\ QuietBatch /\ InitParity /\ agg = IdleAgg

NextParitySpec == RunBatchBuilder \/ RunServeBuilder

SpecParity == InitParitySpec /\ [][NextParitySpec]_vars

\* the aggregation on its own
InitAggSpec ==
    QuietCache /\ QuietServer /\ QuietBatch /\ par = IdlePar /\ InitAgg

NextAggSpec == AggregateBatch \/ AggregateServe

SpecAgg == InitAggSpec /\ [][NextAggSpec]_vars

(***************************************************************************)
(* The serving cache (SpecCache)                                           *)
(***************************************************************************)
\* thread t enters get_team_epa_cached in this step
StartsLookup(t) == th[t].pc # "fetching" /\ th'[t] # th[t]

\* thread t leaves get_team_epa_cached in this step, after its outbound GET
EndsFetch(t) == th[t].pc = "fetching" /\ th'[t].pc # "fetching"

\* C1: once a lookup has stored a result for a key at time ts, every further
\* lookup of the key that starts while clock - ts < EPA_CACHE_TTL returns the
\* stored result (a rating or None) and issues no request to the rating
\* service; a lookup that starts once the TTL has elapsed issues a request
\* again, and when it ends the entry of the key is its own (stamped with its
\* time), the expired entry superseded.
C1_TTLWindow ==
    [][\A t \in Threads :
         LET k == th'[t].team
         IN  /\ (StartsLookup(t) /\ k \in DOMAIN _epa_cache
                    /\ clock - _epa_cache[k].ts < EPA_CACHE_TTL)
                  => /\ th'[t].pc = "returned"
                     /\ th'[t].ret = _epa_cache[k].data
             /\ (StartsLookup(t) /\ k \in DOMAIN _epa_cache
                    /\ clock - _epa_cache[k].ts >= EPA_CACHE_TTL)
                  => th'[t].pc = "fetching"
             /\ (EndsFetch(t) /\ th[t].saw = "expired")
                  => _epa_cache'[k].ts = th[t].now
      ]_vars

\* C2: at most one outbound fetch per key is in flight at any time.
C2_OneFetchInFlightPerKey ==
    \A k \in CacheTeams :
        Cardinality({t \in Threads : th[t].pc = "fetching" /\ th[t].team = k}) <= 1

\* C3: a rating fetch never raises to its caller; a network failure and a
\* non-success status end as None.
C3_FetchNeverRaises ==
    \A t \in Threads :
        /\ th[t].pc # "raised"
        /\ (th[t].pc = "returned" /\ th[t].saw # "fresh"
              /\ th[t].resp.kind \in {"neterr", "status"})
             => th[t].ret = None

\* the response carries no usable rating: a failed call, a non-success
\* status, a success payload without a rating value
NoUsableRating(resp) ==
    \/ resp.kind \in {"neterr", "status"}
    \/ resp.kind = "ok" /\ IsDict(resp.body) /\ ~HasKey(resp.body, "epa")

\* C4: a fetch whose response carries no usable rating ends as None, never
\* as a present record (total = auto = teleop = endgame = 0), returned or
\* stored.
C4_AbsentNeverRatedZero ==
    \A t \in Threads :
        (th[t].pc = "returned" /\ th[t].saw # "fresh" /\ NoUsableRating(th[t].resp))
          => /\ th[t].ret = None
             /\ th[t].ret # ZeroRating

(***************************************************************************)
(* Both builders on the same inputs (SpecParity)                           *)
(***************************************************************************)
\* C5: when build_feature_vector emits a row and build_features returns a
\* vector for the same six payloads and the same match context, the vector
\* equals the row's 16 feature fields, and those are the row's first 16
\* columns in the canonical order.
C5_TrainServeParity ==
    (par.batchDone /\ par.serveDone /\ par.row # NoRow /\ par.serve.out = "vector")
      => /\ par.serve.X = [i \in 1..Len(FEATURE_COLS) |->
                             DictAt(par.row, FEATURE_COLS[i])]
         /\ SubSeq(DictKeys(par.row), 1, Len(FEATURE_COLS)) = FEATURE_COLS

(***************************************************************************)
(* The prediction server (Spec)                                            *)
(***************************************************************************)
\* C6: the server never holds a request it has accepted for prediction (past
\* the checks of lines 156-160) while its loaded column list differs from
\* the schema FEATURE_COLS.
C6_SchemaMismatchFailsAtStartup ==
    (srv.phase = "serving" /\ MODELS_LOADED /\ srv.pc \in {"fetch", "build"})
      => feature_cols = FEATURE_COLS

\* the number of present ratings among an alliance's three
NumValid(epas) == Cardinality({i \in 1..Len(epas) : epas[i] # None})

\* C8: with models loaded (and the schema's own column list) and 3 teams per
\* alliance, a request whose six ratings were fetched ends with a vector
\* (status 200) exactly when each alliance has at least 1 present rating,
\* and ends 422 without a vector when an alliance has none.
C8_ServeGate ==
    (srv.pc = "done" /\ MODELS_LOADED /\ feature_cols = FEATURE_COLS
       /\ Len(srv.req.red_teams) = 3 /\ Len(srv.req.blue_teams) = 3
       /\ Len(srv.epas) = 6)
      => LET rv == NumValid(SubSeq(srv.epas, 1, 3))
             bv == NumValid(SubSeq(srv.epas, 4, 6))
         IN  /\ (srv.status = 200 /\ srv.X # << >>) <=> (rv >= 1 /\ bv >= 1)
             /\ (rv = 0 \/ bv = 0) => (srv.status = 422 /\ srv.X = << >>)

(***************************************************************************)
(* The batch builder (SpecBatch)                                           *)
(***************************************************************************)
BatchRedEpas == SubSeq(bat.epas, 1, 3)

BatchBlueEpas == SubSeq(bat.epas, 4, 6)

\* build_feature_vector has returned for bat.match, its six ratings fetched
BatchBuilt == bat.pc = "main" /\ Len(bat.epas) = 6

\* C7: build_feature_vector emits a row only if at least 2 of the 3 fetched
\* ratings are present on the red alliance and at least 2 of 3 on the blue
\* one; the row main() appended last is then that row.
C7_BatchGate ==
    /\ (BatchBuilt /\ (NumValid(BatchRedEpas) < 2 \/ NumValid(BatchBlueEpas) < 2))
         => bat.row = NoRow
    /\ bat.row # NoRow
         => /\ BatchBuilt
            /\ NumValid(BatchRedEpas) >= 2
            /\ NumValid(BatchBlueEpas) >= 2
            /\ all_rows # << >>
            /\ SubSeq(all_rows[Len(all_rows)], 1, Len(bat.row)) = bat.row

\* a match with 1 present rating on red, 3 on blue and a decided score has
\* been built, and no row came of it
C7_Witness ==
    /\ BatchBuilt
    /\ NumValid(BatchRedEpas) = 1
    /\ NumValid(BatchBlueEpas) = 3
    /\ bat.match.red.score > bat.match.blue.score
    /\ bat.row = NoRow

\* the label fields of a row agree with its scores
LabelOK(row) ==
    LET rs == DictAt(row, "red_score")
        bs == DictAt(row, "blue_score")
        w == DictAt(row, "winner")
        m == DictAt(row, "score_margin")
    IN  /\ rs # bs
        /\ w \in {0, 1}
        /\ (w = 1) <=> (rs > bs)
        /\ (w = 0) <=> (bs > rs)
        /\ m = rs - bs
        /\ m # 0

\* C9: a match with red_score = blue_score produces no row; every row has
\* the scores of its match, winner = 1 exactly when red_score > blue_score,
\* winner = 0 exactly when blue_score > red_score, and
\* score_margin = red_score - blue_score, never 0.
C9_LabelDerivation ==
    /\ (bat.pc = "main" /\ bat.match.red.score = bat.match.blue.score)
         => bat.row = NoRow
    /\ bat.row # NoRow
         => /\ DictAt(bat.row, "red_score") = bat.match.red.score
            /\ DictAt(bat.row, "blue_score") = bat.match.blue.score
            /\ LabelOK(bat.row)
    /\ \A i \in 1..Len(all_rows) : LabelOK(all_rows[i])

\* a blue win was emitted, then a tie with all six ratings present was built
\* and gave no row
C9_Witness ==
    /\ Len(all_rows) = 1
    /\ DictAt(all_rows[1], "winner") = 0
    /\ BatchBuilt
    /\ bat.match.red.score = bat.match.blue.score
    /\ NumValid(bat.epas) = 6
    /\ bat.row = NoRow

(***************************************************************************)
(* The aggregation (SpecAgg)                                               *)
(***************************************************************************)
PresentIn(epas) == {i \in 1..Len(epas) : epas[i] # None}

RECURSIVE SumOver(_, _, _)
SumOver(I, epas, key) ==
    IF I = {} THEN 0
    ELSE LET i == CHOOSE j \in I : TRUE
         IN  epas[i].f[key].n + SumOver(I \ {i}, epas, key)

\* the six summary fields f (a dict, fixed point) of the ratings epas
SummaryOK(epas, f, prefix) ==
    LET P == PresentIn(epas)
        n == Cardinality(P)
        avg(name) == DictAt(f, prefix \o name)
    IN  IF n = 0
        THEN \A name \in {"_avg_epa", "_avg_auto", "_avg_teleop",
                          "_avg_endgame", "_sum_epa", "_max_epa"} :
                 avg(name) = 0
        ELSE /\ avg("_avg_epa") * n = Den * SumOver(P, epas, "total")
             /\ avg("_avg_auto") * n = Den * SumOver(P, epas, "auto")
             /\ avg("_avg_teleop") * n = Den * SumOver(P, epas, "teleop")
             /\ avg("_avg_endgame") * n = Den * SumOver(P, epas, "endgame")
             /\ avg("_sum_epa") = Den * SumOver(P, epas, "total")
             /\ \E i \in P : avg("_max_epa") = Den * epas[i].f["total"].n
             /\ \A i \in P : avg("_max_epa") >= Den * epas[i].f["total"].n

\* C10: for up to 3 ratings per alliance, each present or absent, the six
\* summary fields are 0 when none is present; otherwise each avg_* is the
\* mean over the present ratings only, sum_total their sum and max_total
\* their maximum; epa_diff = red sum - blue sum and avg_epa_diff = red avg -
\* blue avg.  Batch (alliance_features) and serving (build_features) alike.
C10_Aggregation ==
    /\ agg.batchDone
         => /\ SummaryOK(agg.red, agg.red_feats, "red")
            /\ SummaryOK(agg.blue, agg.blue_feats, "blue")
            /\ agg.epa_diff = DictAt(agg.red_feats, "red_sum_epa")
                                - DictAt(agg.blue_feats, "blue_sum_epa")
            /\ agg.avg_epa_diff = DictAt(agg.red_feats, "red_avg_epa")
                                    - DictAt(agg.blue_feats, "blue_avg_epa")
    /\ agg.serveDone
         => /\ SummaryOK(agg.red, agg.features, "red")
            /\ SummaryOK(agg.blue, agg.features, "blue")
            /\ DictAt(agg.features, "epa_diff")
                 = DictAt(agg.features, "red_sum_epa")
                     - DictAt(agg.features, "blue_sum_epa")
            /\ DictAt(agg.features, "avg_epa_diff")
                 = DictAt(agg.features, "red_avg_epa")
                     - DictAt(agg.features, "blue_avg_epa")

\* red totals [50, 40, 30], blue [20, 25, absent]: both paths give
\* red_sum_epa 120, red_avg_epa 40, blue_sum_epa 45, blue_avg_epa 22.5,
\* epa_diff 75, avg_epa_diff 17.5 (each times Den; 2 * 22.5 = 45)
C10_Witness ==
    /\ agg.batchDone /\ agg.serveDone
    /\ Len(agg.red) = 3 /\ Len(agg.blue) = 3
    /\ PresentIn(agg.red) = {1, 2, 3}
    /\ PresentIn(agg.blue) = {1, 2}
    /\ [i \in 1..3 |-> agg.red[i].f["total"].n] = <<50, 40, 30>>
    /\ [i \in 1..2 |-> agg.blue[i].f["total"].n] = <<20, 25>>
    /\ DictAt(agg.red_feats, "red_sum_epa") = Den * 120
    /\ DictAt(agg.red_feats, "red_avg_epa") = Den * 40
    /\ DictAt(agg.blue_feats, "blue_sum_epa") = Den * 45
    /\ 2 * DictAt(agg.blue_feats, "blue_avg_epa") = Den * 45
    /\ agg.epa_diff = Den * 75
    /\ 2 * agg.avg_epa_diff = Den * 35
    /\ \A c \in {"red_sum_epa", "red_avg_epa", "blue_sum_epa", "blue_avg_epa"} :
         DictAt(agg.features, c) = DictAt(agg.red_feats \o agg.blue_feats, c)
    /\ DictAt(agg.features, "epa_diff") = agg.epa_diff
    /\ DictAt(agg.features, "avg_epa_diff") = agg.avg_epa_diff

(***************************************************************************)
(* The batch memo (SpecMemo)                                               *)
(***************************************************************************)
\* get_team_epa is entered for a key that main()'s epa_cache already holds
BatchLookupOfResolved == bat.pc = "fetch" /\ BatchKey \in DOMAIN epa_cache

\* C11: within one batch run the rating service is invoked at most once per
\* key (team, event); a resolved key, resolved to absent included, keeps its
\* value for the rest of the run (no expiry, no overwrite), and every later
\* get_team_epa for it returns that value without a throttle or a call, so a
\* failed fetch is never retried.
C11_BatchMemoization ==
    [][/\ \A k \in DOMAIN bat'.calls : bat'.calls[k] <= 1
       /\ \A k \in DOMAIN epa_cache :
            k \in DOMAIN epa_cache' /\ epa_cache'[k] = epa_cache[k]
       /\ BatchLookupOfResolved
            => /\ bat'.epas = Append(bat.epas, epa_cache[BatchKey])
               /\ bat'.calls = bat.calls
               /\ bat'.wire = bat.wire
               /\ epa_cache' = epa_cache
      ]_vars

\* team 1 failed to resolve in event "e" (absent, one call); in event "f" it
\* plays on both alliances of one match: one call for the new key, absent
\* again, and the second lookup of that match answered from the memo
C11_Witness ==
    /\ bat.pc = "main" /\ Len(bat.epas) = 6
    /\ bat.event.key = "f" /\ bat.seen = {"e", "f"}
    /\ cache_key(1, "e") \in DOMAIN epa_cache
    /\ cache_key(1, "f") \in DOMAIN epa_cache
    /\ epa_cache[cache_key(1, "e")] = None
    /\ epa_cache[cache_key(1, "f")] = None
    /\ bat.calls[cache_key(1, "e")] = 1
    /\ bat.calls[cache_key(1, "f")] = 1
    /\ bat.epas[1] = None /\ bat.epas[6] = None
    /\ Cardinality({i \in 1..Len(bat.wire) :
                      bat.wire[i] = WireGet(cache_key(1, "f"))}) = 1

(***************************************************************************)
(* Throttling (SpecRate)                                                   *)
(***************************************************************************)
\* in a log of outbound effects, every GET comes right after one delay of
\* THROTTLE_MS made for the same key, and every delay is followed by its GET
ThrottledLog(wire) ==
    \A i \in 1..Len(wire) :
        /\ wire[i].op = "get"
             => /\ i > 1
                /\ wire[i - 1] = WireSleep(wire[i].key, THROTTLE_MS)
                /\ i > 2 => wire[i - 2].op = "get"
        /\ wire[i].op = "sleep"
             => /\ wire[i].ms = THROTTLE_MS
                /\ i < Len(wire) => wire[i + 1] = WireGet(wire[i].key)

\* C12: in batch mode every outbound rating-service call comes immediately
\* after exactly one throttle delay of THROTTLE_MS, so no two successive calls
\* go out without a delay between them, and a cache hit neither delays nor
\* calls; in serving mode a rating call is issued with no delay before it: the
\* server's outbound effects are GETs only.
C12_ThrottleOrder ==
    [][/\ ThrottledLog(bat'.wire)
       /\ bat'.pc = "call"
            => /\ bat'.wire # << >>
               /\ bat'.wire[Len(bat'.wire)].op = "sleep"
       /\ (bat.pc = "call" /\ bat'.pc # "call")
            => bat'.wire = Append(bat.wire, WireGet(BatchKey))
       /\ BatchLookupOfResolved => bat'.wire = bat.wire
       /\ \A i \in 1..Len(srv'.wire) : srv'.wire[i].op = "get"
       /\ (srv.pc = "fetch"
             /\ ~CacheHit(_epa_cache,
                          (srv.req.red_teams \o srv.req.blue_teams)[srv.idx],
                          clock))
            => /\ Len(srv'.wire) = Len(srv.wire) + 1
               /\ srv'.wire[Len(srv'.wire)].op = "get"
      ]_vars

\* one build_feature_vector call whose six lookups were five misses, each a
\* delay then a GET, and one hit (team 1, on both alliances)
C12_Witness ==
    /\ bat.pc = "build"
    /\ Len(bat.epas) = 6
    /\ Len(bat.wire) = 10
    /\ \A i \in 1..5 : /\ bat.wire[2 * i - 1].op = "sleep"
                       /\ bat.wire[2 * i].op = "get"
    /\ bat.wire[2].key = cache_key(1, bat.event.key)
    /\ bat.wire[10].key = cache_key(5, bat.event.key)

(***************************************************************************)
(* Degraded mode (Spec)                                                    *)
(***************************************************************************)
\* the server came up although an artifact failed to load
Degraded == srv.phase = "serving" /\ ~MODELS_LOADED

\* C13: when a model artifact failed to load the server still serves: a
\* health check is answered "ok" with models_loaded false, and every /predict
\* request, whatever its team counts, ends 503 at once (never 400), with no
\* rating fetch issued, no vector built and the rating cache as it was (empty).
C13_DegradedMode ==
    Degraded
      => /\ srv.pc \in {"idle", "done"}
         /\ (srv.pc = "done" /\ srv.route = "/predict")
              => /\ srv.status = 503
                 /\ srv.wire = << >>
                 /\ srv.epas = << >>
                 /\ srv.X = << >>
         /\ (srv.pc = "done" /\ srv.route = "/health")
              => /\ srv.status = 200
                 /\ srv.body = [status |-> "ok", models_loaded |-> FALSE]
         /\ _epa_cache = EmptyCache
         /\ feature_cols = << >>

\* degraded, and a request with two red teams has just been answered 503
C13_Witness ==
    /\ Degraded
    /\ srv.pc = "done" /\ srv.route = "/predict"
    /\ Len(srv.req.red_teams) = 2
    /\ srv.status = 503
    /\ srv.wire = << >>
    /\ _epa_cache = EmptyCache

====
